---- MODULE Spec2Model ----
(***************************************************************************)
(* Practice-video assembly pipeline of yt_shadowing.                       *)
(*                                                                         *)
(* Three generators are modelled, selected by `variant`:                   *)
(*   "core"    backend/core/generator.py        RepeatVideoGenerator       *)
(*   "modules" modules/generate_repeat_video.py RepeatVideoGenerator       *)
(*   "service" backend/app/services/generator.py RepeatVideoGenerator      *)
(* An action is one step of a run between two awaited external calls; the  *)
(* outcome of every external call (transcoder, probe, speech synthesis) is *)
(* a nondeterministic choice.                                              *)
(***************************************************************************)
EXTENDS Integers, Sequences, FiniteSets, TLC

\* ------------------------------------------------------------- bounds
MaxRepeat == 3
MaxModes == 2
MaxCues == 1
\* Passes of a run that has the voice overlay switched on.
MaxTtsRepeat == 2

\* ------------------------------------------------------------- values
Modes == {"no_subtitle", "en", "ko", "en_ko"}

\* Modes drawn for config["subtitle_mode"] in a pipeline run: the stream-copy
\* mode and one burn-in mode (en and ko take the same branch as en_ko in
\* _create_segment).
PipelineModes == {"no_subtitle", "en_ko"}

\* What the caller put under config["tts"]: nothing, a provider that is
\* None/empty, or a provider name.
TtsSettings == {"absent", "off", "edge-tts", "gtts"}

Variants == {"core", "modules", "service"}

\* Exit of an external command: success, non-zero return code, or an
\* exception raised while starting it / decoding its output.
Outcomes == {"ok", "nonzero", "raise"}

\* Exit of a command run with check=True followed by an exists/getsize test.
SvcOutcomes == {"ok", "ok_empty", "ok_missing", "nonzero"}

Path(kind, idx) == [kind |-> kind, idx |-> idx]

Call(op, pass, mode, cue) == [op |-> op, pass |-> pass, mode |-> mode, cue |-> cue]

SeqsUpTo(S, n) == UNION {[1..m -> S] : m \in 0..n}

\* One cue per position; start times in milliseconds.
CueAt(n) == [index |-> n, start |-> 1000 * (n - 1), end |-> 1000 * n, text |-> "a"]

CueLists == {[n \in 1..m |-> CueAt(n)] : m \in 0..MaxCues}

VARIABLES
    variant,         \* which generator runs
    repeat_count,    \* config["repeat_count"] / the repeat_count argument
    userModes,       \* config["subtitle_mode"] as the caller supplied it
    ttsCfg,          \* config["tts"] as the caller supplied it
    inputExists,     \* the input clip is on disk
    subtitleExists,  \* the caption file is on disk
    subs,            \* the parsed caption entries
    subtitle_modes,  \* the (mutable) mode list padded by the planner
    pc,              \* position of the run
    i,               \* loop index of generate_repeat_video
    k,               \* loop index of _generate_edge_tts
    segRet,          \* value _create_segment is about to return
    segments,        \* list handed to _concatenate_segments
    temp_files,      \* self.temp_files
    disk,            \* temporary paths that exist on disk
    zeroByte,        \* those of them that are zero bytes long
    manifest,        \* lines written to the concat list file
    output,          \* state of output_path: "none", "ok", "empty"
    calls,           \* external calls made so far, in order
    rendered,        \* units whose render call returned success
    ttsResult,       \* return value of _add_tts_to_video: "none", "ok", "failed"
    cleaned,         \* cleanup() ran in this run
    stuck,           \* paths whose unlink raised during cleanup
    result,          \* value returned to the caller: "none", "success", "failure"
    route,           \* who called the generator: "direct" or a web route
    task,            \* the task-status record of the background task
    stderr,          \* stderr text of a concatenation that returned non-zero
    xfCues,          \* transformer check: the cue list given to _prepare_subtitles
    xfMode,          \* transformer check: the mode
    xfLookup,        \* transformer check: korean_translation (empty when None)
    xfOut,           \* transformer check: the cue lists produced so far
    xfSubs,          \* transformer check: the parsed list object as it is now
    xfPass,          \* transformer check: passes whose caption file was prepared
    xfSpoken,        \* transformer check: what the overlay read, <<>> before it ran
    clock,           \* task table: int(time.time()), the wall clock in whole seconds
    table,           \* task table: the status dictionary of a route, id -> record
    jobs,            \* task table: per request its position and the id it was given
    video_duration,  \* overlay check: probed length of the pass video, in seconds
    faults,          \* whether a tool may return zero without a usable output file
    hollow,          \* outputs a tool reported as written but left missing or empty
    focusCfg,        \* config["practice_format"]["focus_message"] as the caller set it
    shown,           \* the messages of the interludes rendered so far
    mergeSegments,   \* merge_segments: the segment paths passed in, in order
    intro,           \* merge_segments: the intro path, "" when not given
    outro,           \* merge_segments: the outro path, "" when not given
    mergeDisk,       \* merge_segments: the paths that exist
    mergePc,         \* merge_segments: position in the method
    concatWritten,   \* merge_segments: whether the concat file was created
    concat_file,     \* merge_segments: the lines of the concat file
    ffmpegRuns,      \* merge_segments: number of transcoder calls made
    mergeResult      \* merge_segments: "none", "success" or "failure"

inputs == <<variant, repeat_count, userModes, ttsCfg, inputExists, subtitleExists, subs,
           route, focusCfg>>
files == <<temp_files, disk, zeroByte>>
xf == <<xfCues, xfMode, xfLookup, xfOut, xfSubs, xfPass, xfSpoken>>
run == <<subtitle_modes, pc, i, k, segRet, segments, files, manifest,
         output, calls, rendered, ttsResult, cleaned, stuck, result, task, stderr,
         hollow, shown>>
mrg == <<mergeSegments, intro, outro, mergeDisk, mergePc, concatWritten, concat_file,
         ffmpegRuns, mergeResult>>
ext == <<clock, table, jobs, video_duration, faults, mrg>>
vars == <<inputs, run, xf, ext>>

\* ------------------------------------------------------------- helpers
Last(s) == s[Len(s)]

Range(s) == {s[j] : j \in DOMAIN s}

\* _merge_config for the "tts" key, then config["tts"].get("provider").
\* core: a missing key takes the default dictionary (provider edge-tts).
\* modules: the YAML configuration is used as loaded, without defaults.
MergedProvider(v, cfg) ==
    IF cfg = "absent" THEN (IF v = "core" THEN "edge-tts" ELSE "")
    ELSE IF cfg = "off" THEN ""
    ELSE cfg

Provider == MergedProvider(variant, ttsCfg)

\* The caller's configuration has no practice_format.focus_message key.
NoFocusList == [configured |-> FALSE, messages |-> <<>>]

\* The list _create_focus_segment falls back to in core when the key is
\* missing: four messages.
DefaultFocusMessages == <<"focus_again", "remember", "repeat_after_me", "shall_we_try">>

\* if segment_index % 2 == 0: the first message, else the second.
Alternate(segment_index) ==
    IF segment_index % 2 = 0 THEN "focus_again" ELSE "remember"

\* The message _create_focus_segment draws on the interlude.  core reads the
\* configured list, or the four default messages when the key is missing,
\* and alternates between two messages only when that list is empty;
\* modules reads no configuration and always alternates.
FocusMessage(v, cfg, segment_index) ==
    IF v = "core"
    THEN LET focus_messages == IF cfg.configured THEN cfg.messages
                               ELSE DefaultFocusMessages
         IN IF focus_messages # <<>>
            THEN focus_messages[(segment_index % Len(focus_messages)) + 1]
            ELSE Alternate(segment_index)
    ELSE Alternate(segment_index)

\* Mutant: the guard without its segment_index test.
TtsEnabledAnyPass(segment_index, provider) == provider # ""

\* The guard of the TTS call in _create_segment.
TtsEnabled(segment_index, provider) == segment_index = 0 /\ provider # ""

\* Mutant: the padding loop appending subtitle_modes[0].
RECURSIVE PadModesFirst(_, _)
PadModesFirst(modes, n) ==
    IF Len(modes) < n THEN PadModesFirst(Append(modes, modes[1]), n) ELSE modes

\* while len(subtitle_modes) < repeat_count: append(subtitle_modes[-1])
\* Only called on a non-empty list (subtitle_modes[-1] raises on an empty one).
RECURSIVE PadModes(_, _)
PadModes(modes, n) ==
    IF Len(modes) < n THEN PadModes(Append(modes, Last(modes)), n) ELSE modes

\* The padding loop raises IndexError.
PadRaises(modes, n) == Len(modes) < n /\ modes = <<>>

\* mode = subtitle_modes[i] if i < len(subtitle_modes) else "en_ko"
ModeAt(modes, idx) == IF idx < Len(modes) THEN modes[idx + 1] ELSE "en_ko"

\* segments.append(path)
AppendUnit(segs, p) == Append(segs, p)

\* Mutant: the list file written back to front.
ManifestReversed(segs) == [j \in 1..Len(segs) |-> segs[Len(segs) + 1 - j]]

\* The lines written to the concat list file, one per segment, in list order.
ManifestOf(segs) == [j \in 1..Len(segs) |-> segs[j]]

\* for _ in range(repeat_count): f.write(file temp_segment)
RepeatLines(p, n) == [j \in 1..(IF n > 0 THEN n ELSE 0) |-> p]

\* cleanup(): every registered path that exists is unlinked, except those
\* whose unlink raised (logged, not raised).
AfterCleanup(d, registered, failing) == (d \ Range(registered)) \cup (d \cap failing)

\* ------------------------------------------------------------- task records
\* Callers of generate_repeat_video: "direct" (command line, no record),
\* "api" (backend/api/routes), "web" (backend/web/routes), both over the core
\* generator, and "youtube" (backend/app/routers) over the service generator.
Routes == {"direct", "api", "web", "youtube"}

\* A task-status record.  A key the dictionary does not have is "absent", a
\* key holding None is "none".  The web route keeps its state under the key
\* "status" and its result under the key "path".
TaskRecord(state, progress, res, path, error) ==
    [state |-> state, progress |-> progress, result |-> res, path |-> path, error |-> error]

\* The record as the request handler leaves it before the background task
\* runs; the web route writes its record only inside the task.
InitialTask(r) ==
    CASE r = "api" -> TaskRecord("PENDING", 0, "absent", "absent", "absent")
      [] r = "youtube" -> TaskRecord("PENDING", 0, "none", "absent", "none")
      [] OTHER -> TaskRecord("absent", 0, "absent", "absent", "absent")

\* progress_callback(progress, msg) of the youtube router, progress given in
\* tenths: tasks[task_id]["progress"] = int(progress * 100).
ProgressCallback(t, tenths) == [t EXCEPT !.progress = tenths * 10]

\* if progress_callback: await progress_callback(...)
Notify(r, t, tenths) == IF r = "youtube" THEN ProgressCallback(t, tenths) ELSE t

\* The generator has been called: directly, or by a background task that
\* marked its record as running.
TaskRunning == route = "direct" \/ task.state \in {"PROGRESS", "processing"}

\* ------------------------------------------------------------- initial state
\* merge_segments has not been called.
MergeIdle ==
    /\ mergeSegments = <<>>
    /\ intro = ""
    /\ outro = ""
    /\ mergeDisk = {}
    /\ mergePc = "idle"
    /\ concatWritten = FALSE
    /\ concat_file = <<>>
    /\ ffmpegRuns = 0
    /\ mergeResult = "none"

\* No request has been made of any route.
ExtIdle ==
    /\ clock = 0
    /\ table = <<>>
    /\ jobs = <<>>
    /\ video_duration = 0
    /\ faults = FALSE
    /\ MergeIdle

\* The generator right after construction: nothing registered, nothing run.
RunInit ==
    /\ subtitle_modes = userModes
    /\ pc = "start"
    /\ i = 0
    /\ k = 0
    /\ segRet = "none"
    /\ segments = <<>>
    /\ temp_files = <<>>
    /\ disk = {}
    /\ zeroByte = {}
    /\ manifest = <<>>
    /\ output = "none"
    /\ calls = <<>>
    /\ rendered = {}
    /\ ttsResult = "none"
    /\ cleaned = FALSE
    /\ stuck = {}
    /\ result = "none"
    /\ task = InitialTask(route)
    /\ stderr = ""
    /\ hollow = {}
    /\ shown = <<>>

Init ==
    /\ variant \in Variants
    /\ route = "direct"
    /\ focusCfg = NoFocusList
    /\ repeat_count \in 0..MaxRepeat
    /\ inputExists \in BOOLEAN
    /\ IF variant = "service"
       THEN /\ userModes = <<>>
            /\ ttsCfg = "absent"
            /\ subtitleExists = TRUE
            /\ subs = <<>>
       ELSE /\ userModes \in SeqsUpTo(PipelineModes, MaxModes)
            /\ ttsCfg \in TtsSettings
            /\ MergedProvider(variant, ttsCfg) # "" => repeat_count <= MaxTtsRepeat
            /\ subtitleExists \in BOOLEAN
            /\ subs \in CueLists
    /\ RunInit
    /\ xfCues = <<>>
    /\ xfMode = "no_subtitle"
    /\ xfLookup = <<>>
    /\ xfOut = <<>>
    /\ xfSubs = <<>>
    /\ xfPass = 0
    /\ xfSpoken = <<>>
    /\ ExtIdle

\* ------------------------------------------------------------- core / modules
\* generate_repeat_video up to the caption file being read.  core checks
\* that both inputs exist and returns False otherwise; modules checks
\* nothing and pysrt.open raises on a missing caption file.
Start ==
    /\ pc = "start"
    /\ TaskRunning
    /\ variant \in {"core", "modules"}
    /\ IF (variant = "core" /\ ~inputExists) \/ ~subtitleExists
       THEN /\ result' = "failure"
            /\ pc' = "cleanup"
       ELSE /\ pc' = "plan"
            /\ UNCHANGED result
    /\ UNCHANGED <<xf, ext, inputs, hollow, shown, task, stderr, subtitle_modes, i, k, segRet, segments, files, manifest,
                   output, calls, rendered, ttsResult, cleaned, stuck>>

\* The planner: repeat_count and subtitle_mode are read, the mode list is
\* padded in place, the segment list starts empty.  An empty mode list with
\* repeat_count >= 1 raises IndexError, caught by the outer handler.
Plan ==
    /\ pc = "plan"
    /\ IF PadRaises(subtitle_modes, repeat_count)
       THEN /\ result' = "failure"
            /\ pc' = "cleanup"
            /\ UNCHANGED <<subtitle_modes, segments, i>>
       ELSE /\ subtitle_modes' = PadModes(subtitle_modes, repeat_count)
            /\ segments' = <<>>
            /\ i' = 0
            /\ pc' = IF repeat_count > 0 THEN "segment" ELSE "concat"
            /\ UNCHANGED result
    /\ UNCHANGED <<xf, ext, inputs, hollow, shown, task, stderr, k, segRet, files, manifest, output, calls, rendered,
                   ttsResult, cleaned, stuck>>

\* Exits the render command can take: it cannot succeed on an input clip
\* that is not there.
RenderOutcomes(exists) == IF exists THEN Outcomes ELSE Outcomes \ {"ok"}

\* Return code zero with the output file left zero bytes long or not written.
Hollow == {"ok_empty", "ok_missing"}

\* What a tool run can come to when the files it reads are present or not.
ToolOutcomes(present) ==
    IF ~present THEN Outcomes \ {"ok"}
    ELSE IF faults THEN Outcomes \cup Hollow
    ELSE Outcomes

\* process.returncode == 0.
ReturnsZero(out) == out \in {"ok"} \cup Hollow

\* The files on disk, those of them that are empty, and the outputs known to
\* be unusable, after a tool that was to write f came to out.
DiskAfter(d, f, out) == IF out \in {"ok", "ok_empty"} THEN d \cup {f} ELSE d

EmptyAfter(z, f, out) == IF out = "ok_empty" THEN z \cup {f} ELSE z

HollowAfter(h, f, out) == IF out \in Hollow THEN h \cup {f} ELSE h

\* _create_segment up to the TTS guard: both temporary paths are registered,
\* the per-pass caption file is written, the clip is stream-copied
\* (no_subtitle) or rendered with burnt-in captions (any other mode).
CreateSegment ==
    /\ pc = "segment"
    /\ LET mode == ModeAt(subtitle_modes, i)
           mp4 == Path("segment_mp4", i)
           srt == Path("segment_srt", i)
       IN /\ temp_files' = temp_files \o <<mp4, srt>>
          /\ calls' = Append(calls, Call(IF mode = "no_subtitle" THEN "copy" ELSE "burn",
                                         i, mode, 0))
          /\ \E out \in ToolOutcomes(inputExists) :
                /\ zeroByte' = EmptyAfter(zeroByte, mp4, out)
                /\ hollow' = HollowAfter(hollow, mp4, out)
                /\ IF ReturnsZero(out)
                   THEN /\ disk' = DiskAfter(disk \cup {srt}, mp4, out)
                        /\ rendered' = rendered \cup {mp4}
                        /\ IF TtsEnabled(i, Provider)
                           THEN /\ pc' = "tts"
                                /\ UNCHANGED segRet
                           ELSE /\ pc' = "seg_ret"
                                /\ segRet' = "path"
                   ELSE /\ disk' = disk \cup {srt}
                        /\ pc' = "seg_ret"
                        /\ segRet' = "none"
                        /\ UNCHANGED rendered
    /\ UNCHANGED <<xf, ext, inputs, shown, task, stderr, subtitle_modes, i, k, segments, manifest, output,
                   ttsResult, cleaned, stuck, result>>

\* _add_tts_to_video up to the provider dispatch.  Only edge-tts is
\* implemented: gtts returns False (core) or is an undefined method
\* (modules); an unsupported provider returns False in the same way.
AddTts ==
    /\ pc = "tts"
    /\ temp_files' = Append(temp_files, Path("audio", i))
    /\ calls' = Append(calls, Call("tts", i, ModeAt(subtitle_modes, i), 0))
    /\ IF Provider = "edge-tts"
       THEN /\ pc' = "probe"
            /\ UNCHANGED <<ttsResult, segRet>>
       ELSE /\ ttsResult' = "failed"
            /\ segRet' = "path"
            /\ pc' = "seg_ret"
    /\ UNCHANGED <<xf, ext, inputs, hollow, shown, task, stderr, subtitle_modes, i, k, segments, disk, zeroByte, manifest,
                   output, rendered, cleaned, stuck, result>>

\* _generate_edge_tts: the duration probe of the rendered pass.  On success
\* the silent base track's path is created (core registers it, modules does
\* not).
Probe ==
    /\ pc = "probe"
    /\ calls' = Append(calls, Call("probe", i, "", 0))
    /\ \E out \in RenderOutcomes(Path("segment_mp4", i) \in disk) :
          IF out = "ok"
          THEN /\ temp_files' = IF variant = "core"
                                THEN Append(temp_files, Path("silent", i))
                                ELSE temp_files
               /\ pc' = "silent"
               /\ UNCHANGED <<ttsResult, segRet>>
          ELSE /\ ttsResult' = "failed"
               /\ segRet' = "path"
               /\ pc' = "seg_ret"
               /\ UNCHANGED temp_files
    /\ UNCHANGED <<xf, ext, inputs, hollow, shown, task, stderr, subtitle_modes, i, k, segments, disk, zeroByte, manifest,
                   output, rendered, cleaned, stuck, result>>

\* The silent base track is generated; its return code is not looked at.
Silent ==
    /\ pc = "silent"
    /\ calls' = Append(calls, Call("silent", i, "", 0))
    /\ \E out \in ToolOutcomes(TRUE) \ {"raise"} :
          /\ disk' = DiskAfter(disk, Path("silent", i), out)
          /\ zeroByte' = EmptyAfter(zeroByte, Path("silent", i), out)
          /\ hollow' = HollowAfter(hollow, Path("silent", i), out)
    /\ k' = 0
    /\ pc' = IF Len(subs) > 0 THEN "synth" ELSE "mix"
    /\ UNCHANGED <<xf, ext, inputs, shown, task, stderr, subtitle_modes, i, segRet, segments, temp_files,
                   manifest, output, rendered, ttsResult, cleaned, stuck, result>>

\* One iteration of the per-cue loop: the clip path is created (registered
\* by core only) and the speech engine is asked to save the clip.
Synth ==
    /\ pc = "synth"
    /\ k < Len(subs)
    /\ temp_files' = IF variant = "core"
                     THEN Append(temp_files, Path("speech", k))
                     ELSE temp_files
    /\ calls' = Append(calls, Call("synth", i, "", k))
    /\ \E out \in {"ok", "raise"} :
          IF out = "ok"
          THEN /\ disk' = disk \cup {Path("speech", k)}
               /\ k' = k + 1
               /\ pc' = IF k + 1 < Len(subs) THEN "synth" ELSE "mix"
               /\ UNCHANGED <<ttsResult, segRet>>
          ELSE /\ ttsResult' = "failed"
               /\ segRet' = "path"
               /\ pc' = "seg_ret"
               /\ UNCHANGED <<disk, k>>
    /\ UNCHANGED <<xf, ext, inputs, hollow, shown, task, stderr, subtitle_modes, i, segments, zeroByte, manifest, output,
                   rendered, cleaned, stuck, result>>

\* The delayed clips are mixed onto the silent track into temp_audio.
Mix ==
    /\ pc = "mix"
    /\ calls' = Append(calls, Call("mix", i, "", 0))
    /\ \E out \in ToolOutcomes(Path("silent", i) \in disk) :
          /\ disk' = DiskAfter(disk, Path("audio", i), out)
          /\ zeroByte' = EmptyAfter(zeroByte, Path("audio", i), out)
          /\ hollow' = HollowAfter(hollow, Path("audio", i), out)
          /\ IF ReturnsZero(out)
             THEN /\ pc' = "mux"
                  /\ UNCHANGED <<ttsResult, segRet>>
             ELSE /\ ttsResult' = "failed"
                  /\ segRet' = "path"
                  /\ pc' = "seg_ret"
    /\ UNCHANGED <<xf, ext, inputs, shown, task, stderr, subtitle_modes, i, k, segments, temp_files,
                   manifest, output, rendered, cleaned, stuck, result>>

\* Back in _add_tts_to_video: the pass's audio stream is replaced by the
\* mixed track and the merged file is moved over the pass file.
Mux ==
    /\ pc = "mux"
    /\ temp_files' = Append(temp_files, Path("tts_merged", i))
    /\ calls' = Append(calls, Call("mux", i, "", 0))
    /\ \E out \in Outcomes :
          ttsResult' = IF out = "ok" THEN "ok" ELSE "failed"
    /\ segRet' = "path"
    /\ pc' = "seg_ret"
    /\ UNCHANGED <<xf, ext, inputs, hollow, shown, task, stderr, subtitle_modes, i, k, segments, disk, zeroByte, manifest,
                   output, rendered, cleaned, stuck, result>>

\* Mutant: the loop left after the first pass.
AfterPassLeavesLoop(idx, n) == "concat"

\* if i < repeat_count - 1: an interlude follows; otherwise the loop ends and
\* the segments are concatenated.
AfterPass(idx, n) == IF idx < n - 1 THEN "focus" ELSE "concat"

\* Back in the loop of generate_repeat_video: a returned path is appended,
\* a None is logged; an interlude follows every pass but the last.
SegmentReturn ==
    /\ pc = "seg_ret"
    /\ segments' = IF segRet = "path"
                   THEN AppendUnit(segments, Path("segment_mp4", i))
                   ELSE segments
    /\ segRet' = "none"
    /\ pc' = AfterPass(i, repeat_count)
    /\ i' = IF i < repeat_count - 1 THEN i ELSE i + 1
    /\ UNCHANGED <<xf, ext, inputs, hollow, shown, task, stderr, subtitle_modes, k, files, manifest, output, calls, rendered,
                   ttsResult, cleaned, stuck, result>>

\* _create_focus_segment and the rest of the loop body: the interlude clip
\* is registered and rendered; it is appended when the render succeeded.
Focus ==
    /\ pc = "focus"
    /\ shown' = Append(shown, FocusMessage(variant, focusCfg, i))
    /\ LET f == Path("focus", i)
       IN /\ temp_files' = Append(temp_files, f)
          /\ calls' = Append(calls, Call("focus", i, "", 0))
          /\ \E out \in ToolOutcomes(TRUE) :
                /\ disk' = DiskAfter(disk, f, out)
                /\ zeroByte' = EmptyAfter(zeroByte, f, out)
                /\ hollow' = HollowAfter(hollow, f, out)
                /\ IF ReturnsZero(out)
                   THEN /\ rendered' = rendered \cup {f}
                        /\ segments' = AppendUnit(segments, f)
                   ELSE UNCHANGED <<rendered, segments>>
    /\ i' = i + 1
    /\ pc' = "segment"
    /\ UNCHANGED <<xf, ext, inputs, task, stderr, subtitle_modes, k, segRet, manifest, output,
                   ttsResult, cleaned, stuck, result>>

\* The end of generate_repeat_video: a non-empty segment list is handed to
\* _concatenate_segments, which registers and writes the list file and runs
\* the concatenation; an empty list fails the run.
Concat ==
    /\ pc = "concat"
    /\ IF segments # <<>>
       THEN LET list == Path("concat", 0)
            IN /\ temp_files' = Append(temp_files, list)
               /\ disk' = disk \cup {list}
               /\ manifest' = ManifestOf(segments)
               /\ calls' = Append(calls, Call("concat", 0, "", 0))
               /\ \E out \in ToolOutcomes(Range(segments) \subseteq disk) :
                     /\ hollow' = HollowAfter(hollow, Path("output", 0), out)
                     /\ IF ReturnsZero(out)
                        THEN /\ output' = CASE out = "ok" -> "ok"
                                             [] out = "ok_empty" -> "empty"
                                             [] OTHER -> output
                             /\ result' = "success"
                             /\ UNCHANGED stderr
                        ELSE /\ result' = "failure"
                             /\ stderr' = IF out = "nonzero" THEN "concat_stderr" ELSE stderr
                             /\ UNCHANGED output
       ELSE /\ result' = "failure"
            /\ UNCHANGED <<temp_files, disk, manifest, calls, output, stderr, hollow>>
    /\ pc' = "cleanup"
    /\ UNCHANGED <<xf, ext, inputs, shown, task, subtitle_modes, i, k, segRet, segments, zeroByte, rendered,
                   ttsResult, cleaned, stuck>>

\* The registered paths, in registration order, that exist on disk.
RECURSIVE Existing(_, _)
Existing(registered, d) ==
    IF registered = <<>> THEN <<>>
    ELSE IF Head(registered) \in d
         THEN <<Head(registered)>> \o Existing(Tail(registered), d)
         ELSE Existing(Tail(registered), d)

\* The unlink failures of one cleanup: none, or the unlink of the first
\* existing path raises.
UnlinkFailures(registered, d) ==
    LET e == Existing(registered, d)
    IN {{}} \cup (IF e = <<>> THEN {} ELSE {{e[1]}})

\* cleanup(), reached through the finally clause (core, modules) or called
\* explicitly (service): every registered path that exists is unlinked; an
\* unlink that raises is logged and skipped.
Cleanup ==
    /\ pc = "cleanup"
    /\ \E failing \in UnlinkFailures(temp_files, disk) :
          /\ stuck' = failing
          /\ disk' = AfterCleanup(disk, temp_files, failing)
    /\ zeroByte' = zeroByte \cap disk'
    /\ cleaned' = TRUE
    /\ task' = IF variant = "service" /\ result = "success"
               THEN Notify(route, task, 10) ELSE task
    /\ pc' = "done"
    /\ UNCHANGED <<xf, ext, inputs, hollow, shown, stderr, subtitle_modes, i, k, segRet, segments, temp_files, manifest,
                   output, calls, rendered, ttsResult, result>>

\* ------------------------------------------------------------- service
\* services generate_repeat_video up to the extraction command: a missing
\* input returns at once; otherwise the temporary segment is registered.
SvcStart ==
    /\ pc = "start"
    /\ TaskRunning
    /\ variant = "service"
    /\ IF ~inputExists
       THEN /\ result' = "failure"
            /\ pc' = "done"
            /\ UNCHANGED <<temp_files, task>>
       ELSE /\ temp_files' = Append(temp_files, Path("svc_segment", 0))
            /\ task' = Notify(route, task, 1)
            /\ pc' = "svc_extract"
            /\ UNCHANGED result
    /\ UNCHANGED <<xf, ext, inputs, hollow, shown, stderr, subtitle_modes, i, k, segRet, segments, disk, zeroByte,
                   manifest, output, calls, rendered, ttsResult, cleaned, stuck>>

\* The extraction (check=True) and the test of its output.  A non-zero exit
\* raises and is handled by the except clause, which cleans up; a missing or
\* empty output returns from inside the try block.  Otherwise the list file
\* is registered and written, one line per repetition.
SvcExtract ==
    /\ pc = "svc_extract"
    /\ calls' = Append(calls, Call("extract", 0, "", 0))
    /\ LET seg == Path("svc_segment", 0)
           list == Path("filelist", 0)
       IN \E out \in SvcOutcomes :
             CASE out = "nonzero" ->
                    /\ result' = "failure"
                    /\ pc' = "cleanup"
                    /\ UNCHANGED <<temp_files, disk, zeroByte, manifest, task, hollow>>
               [] out = "ok_missing" ->
                    /\ hollow' = HollowAfter(hollow, seg, out)
                    /\ result' = "failure"
                    /\ pc' = "done"
                    /\ UNCHANGED <<temp_files, disk, zeroByte, manifest, task>>
               [] out = "ok_empty" ->
                    /\ disk' = disk \cup {seg}
                    /\ zeroByte' = zeroByte \cup {seg}
                    /\ hollow' = HollowAfter(hollow, seg, out)
                    /\ result' = "failure"
                    /\ pc' = "done"
                    /\ UNCHANGED <<temp_files, manifest, task>>
               [] out = "ok" ->
                    /\ temp_files' = Append(temp_files, list)
                    /\ disk' = disk \cup {seg, list}
                    /\ manifest' = RepeatLines(seg, repeat_count)
                    /\ task' = Notify(route, task, 4)
                    /\ pc' = "svc_concat"
                    /\ UNCHANGED <<zeroByte, result, hollow>>
    /\ UNCHANGED <<xf, ext, inputs, shown, stderr, subtitle_modes, i, k, segRet, segments, output, rendered,
                   ttsResult, cleaned, stuck>>

\* The concatenation (check=True) and the test of the final file.  Only the
\* success path and the except clause call cleanup().
SvcConcat ==
    /\ pc = "svc_concat"
    /\ calls' = Append(calls, Call("concat", 0, "", 0))
    /\ \E out \in SvcOutcomes :
          /\ hollow' = HollowAfter(hollow, Path("output", 0), out)
          /\ CASE out = "nonzero" ->
                 /\ result' = "failure"
                 /\ stderr' = "concat_stderr"
                 /\ pc' = "cleanup"
                 /\ UNCHANGED output
            [] out = "ok_missing" ->
                 /\ result' = "failure"
                 /\ pc' = "done"
                 /\ UNCHANGED <<output, stderr>>
            [] out = "ok_empty" ->
                 /\ output' = "empty"
                 /\ result' = "failure"
                 /\ pc' = "done"
                 /\ UNCHANGED stderr
            [] out = "ok" ->
                 /\ output' = "ok"
                 /\ result' = "success"
                 /\ pc' = "cleanup"
                 /\ UNCHANGED stderr
    /\ UNCHANGED <<xf, ext, inputs, shown, task, subtitle_modes, i, k, segRet, segments, files, manifest,
                   rendered, ttsResult, cleaned, stuck>>

\* ------------------------------------------------------------- background tasks
\* Methods of the core RepeatVideoGenerator that a caller can invoke.
GeneratorMethods == {"cleanup", "generate_repeat_video"}

\* generator.load_config() raises AttributeError.
LoadConfigRaises == "load_config" \notin GeneratorMethods

\* The record once generate_task has reached the call of the generator, or
\* (api) once the handler of the AttributeError has run.
StartedRecord(r, t) ==
    CASE r = "api" ->
           IF LoadConfigRaises
           THEN [t EXCEPT !.state = "FAILURE", !.progress = 5, !.error = "attribute_error"]
           ELSE [t EXCEPT !.state = "PROGRESS", !.progress = 20]
      [] r = "web" -> TaskRecord("processing", 0, "absent", "absent", "absent")
      [] OTHER -> [t EXCEPT !.state = "PROGRESS"]

\* Mutant: the task returns without writing a terminal record.
TerminalRecordMissing(r, t, res) == t

\* The record generate_task writes after the generator returned res.
TerminalRecord(r, t, res) ==
    CASE r = "api" ->
           IF res = "success"
           THEN [t EXCEPT !.state = "SUCCESS", !.progress = 100, !.result = "set"]
           ELSE [t EXCEPT !.state = "FAILURE", !.error = "generic"]
      [] r = "web" ->
           IF res = "success"
           THEN TaskRecord("success", 100, "absent", "set", "absent")
           ELSE TaskRecord("error", 100, "absent", "none", "absent")
      [] OTHER ->
           IF res = "success"
           THEN [t EXCEPT !.state = "SUCCESS", !.progress = 100, !.result = "set"]
           ELSE [t EXCEPT !.state = "FAILURE", !.progress = 0, !.error = "generator_error"]

\* generate_task up to the call of the generator.
\* api: the record is set to PROGRESS / 5, then generator.load_config() is
\* called; the class has no such method, the AttributeError is caught by the
\* task's handler and the task ends without the generator having run.
\* web: the record is created.  youtube: the record is set to PROGRESS.
TaskStart ==
    /\ pc = "start"
    /\ route # "direct"
    /\ task.state \in {"PENDING", "absent"}
    /\ task' = StartedRecord(route, task)
    /\ pc' = IF route = "api" /\ LoadConfigRaises THEN "reported" ELSE pc
    /\ UNCHANGED <<xf, ext, inputs, hollow, shown, stderr, subtitle_modes, i, k, segRet, segments, files,
                   manifest, output, calls, rendered, ttsResult, cleaned, stuck, result>>

\* generate_task after the generator returned: the terminal record.
\* api: SUCCESS / 100 / result, or FAILURE with a fixed message.
\* web: the record is replaced; progress is 100 either way, path is None on
\* failure and there is no message.
\* youtube: SUCCESS / 100 / result, or FAILURE / 0 with the error text of the
\* dictionary returned by the generator.
TaskFinish ==
    /\ pc = "done"
    /\ route # "direct"
    /\ task' = TerminalRecord(route, task, result)
    /\ pc' = "reported"
    /\ UNCHANGED <<xf, ext, inputs, hollow, shown, stderr, subtitle_modes, i, k, segRet, segments, files,
                   manifest, output, calls, rendered, ttsResult, cleaned, stuck, result>>

\* ------------------------------------------------------------- specification
Next ==
    \/ Start
    \/ Plan
    \/ CreateSegment
    \/ AddTts
    \/ Probe
    \/ Silent
    \/ Synth
    \/ Mix
    \/ Mux
    \/ SegmentReturn
    \/ Focus
    \/ Concat
    \/ Cleanup
    \/ SvcStart
    \/ SvcExtract
    \/ SvcConcat

Spec == Init /\ [][Next]_vars

\* Runs in which the tools may return zero without leaving a usable output
\* file; both inputs exist.
InitHollow ==
    /\ variant \in Variants
    /\ route = "direct"
    /\ focusCfg = NoFocusList
    /\ repeat_count \in 1..MaxTtsRepeat
    /\ inputExists = TRUE
    /\ subtitleExists = TRUE
    /\ IF variant = "service"
       THEN /\ userModes = <<>>
            /\ ttsCfg = "absent"
            /\ subs = <<>>
       ELSE /\ userModes \in SeqsUpTo(PipelineModes, 1)
            /\ ttsCfg \in TtsSettings
            /\ subs \in CueLists
    /\ RunInit
    /\ xfCues = <<>>
    /\ xfMode = "no_subtitle"
    /\ xfLookup = <<>>
    /\ xfOut = <<>>
    /\ xfSubs = <<>>
    /\ xfPass = 0
    /\ xfSpoken = <<>>
    /\ clock = 0
    /\ table = <<>>
    /\ jobs = <<>>
    /\ video_duration = 0
    /\ faults = TRUE
    /\ MergeIdle

SpecHollow == InitHollow /\ [][Next]_vars

\* Runs of four passes and more with and without a configured list of
\* interlude messages; the speech overlay is switched off.
MaxFocusRepeat == 4

FocusLists ==
    {NoFocusList} \cup
    {[configured |-> TRUE, messages |-> m] :
        m \in {<<>>, <<"get_ready">>, <<"get_ready", "listen", "speak">>}}

InitFocus ==
    /\ variant \in {"core", "modules"}
    /\ route = "direct"
    /\ focusCfg \in FocusLists
    /\ repeat_count \in 1..MaxFocusRepeat
    /\ inputExists = TRUE
    /\ subtitleExists = TRUE
    /\ userModes = <<"no_subtitle">>
    /\ ttsCfg = "off"
    /\ subs = <<>>
    /\ RunInit
    /\ xfCues = <<>>
    /\ xfMode = "no_subtitle"
    /\ xfLookup = <<>>
    /\ xfOut = <<>>
    /\ xfSubs = <<>>
    /\ xfPass = 0
    /\ xfSpoken = <<>>
    /\ ExtIdle

NextFocus ==
    \/ Start
    \/ Plan
    \/ CreateSegment
    \/ SegmentReturn
    \/ Focus
    \/ Concat
    \/ Cleanup

SpecFocus == InitFocus /\ [][NextFocus]_vars

\* Runs started by a background task of one of the three routes, the voice
\* overlay switched off.
InitTask ==
    /\ route \in Routes \ {"direct"}
    /\ focusCfg = NoFocusList
    /\ variant = (IF route = "youtube" THEN "service" ELSE "core")
    /\ repeat_count \in 0..MaxRepeat
    /\ inputExists \in BOOLEAN
    /\ IF variant = "service"
       THEN /\ userModes = <<>>
            /\ subtitleExists = TRUE
       ELSE /\ userModes \in SeqsUpTo(PipelineModes, MaxModes)
            /\ subtitleExists \in BOOLEAN
    /\ ttsCfg = (IF variant = "service" THEN "absent" ELSE "off")
    /\ subs = <<>>
    /\ RunInit
    /\ xfCues = <<>>
    /\ xfMode = "no_subtitle"
    /\ xfLookup = <<>>
    /\ xfOut = <<>>
    /\ xfSubs = <<>>
    /\ xfPass = 0
    /\ xfSpoken = <<>>
    /\ ExtIdle

NextTask ==
    \/ TaskStart
    \/ Start
    \/ Plan
    \/ CreateSegment
    \/ SegmentReturn
    \/ Focus
    \/ Concat
    \/ Cleanup
    \/ SvcStart
    \/ SvcExtract
    \/ SvcConcat
    \/ TaskFinish

SpecTask == InitTask /\ [][NextTask]_vars

\* The event loop runs a background task to its end: every await returns
\* and the coroutine is resumed.
SpecTaskLive == InitTask /\ [][NextTask]_vars /\ WF_vars(NextTask)

TypeOK ==
    /\ pc \in {"start", "plan", "segment", "tts", "probe", "silent", "synth", "mix",
               "mux", "seg_ret", "focus", "concat", "cleanup", "svc_extract",
               "svc_concat", "done", "reported"}
    /\ route \in Routes
    /\ task.progress \in 0..100
    /\ result \in {"none", "success", "failure"}
    /\ zeroByte \subseteq disk
    /\ i \in 0..(IF MaxRepeat > MaxFocusRepeat THEN MaxRepeat ELSE MaxFocusRepeat)
    /\ k \in 0..MaxCues

\* ------------------------------------------------------------- task table
\* Several requests to one route.  Each request gets a task id and a
\* background task; the generator is a collaborator that returns success or
\* failure.
MaxJobs == 2
MaxClock == 1

JobIds == 1..MaxJobs

\* youtube: task_id = f"repeat_{int(time.time())}"; api and web: uuid.uuid4(),
\* one fresh value per call.
NewTaskId(r, j, now) == IF r = "youtube" THEN <<"repeat", now>> ELSE <<"uuid", j>>

\* tasks[task_id] = rec
Put(tb, id, rec) == [x \in (DOMAIN tb) \cup {id} |-> IF x = id THEN rec ELSE tb[x]]

InitJobs ==
    /\ route \in Routes \ {"direct"}
    /\ focusCfg = NoFocusList
    /\ variant = (IF route = "youtube" THEN "service" ELSE "core")
    /\ repeat_count = 1
    /\ inputExists = TRUE
    /\ userModes = <<>>
    /\ subtitleExists = TRUE
    /\ ttsCfg = (IF variant = "service" THEN "absent" ELSE "off")
    /\ subs = <<>>
    /\ RunInit
    /\ xfCues = <<>>
    /\ xfMode = "no_subtitle"
    /\ xfLookup = <<>>
    /\ xfOut = <<>>
    /\ xfSubs = <<>>
    /\ xfPass = 0
    /\ xfSpoken = <<>>
    /\ clock = 0
    /\ table = <<>>
    /\ jobs = [j \in JobIds |-> [pc |-> "new", id |-> <<>>]]
    /\ video_duration = 0
    /\ faults = FALSE
    /\ MergeIdle

\* A second passes on the wall clock.
Tick ==
    /\ clock < MaxClock
    /\ clock' = clock + 1
    /\ UNCHANGED <<inputs, run, xf, table, jobs, video_duration, faults, mrg>>

\* The request handler: a task id is made, the initial record is stored
\* under it (api, youtube; the web route stores nothing), the background
\* task is registered and the id is returned to the caller.
Request ==
    \E j \in JobIds :
        /\ jobs[j].pc = "new"
        /\ LET id == NewTaskId(route, j, clock)
           IN /\ table' = IF route = "web" THEN table ELSE Put(table, id, InitialTask(route))
              /\ jobs' = [jobs EXCEPT ![j] = [pc |-> "accepted", id |-> id]]
        /\ UNCHANGED <<inputs, run, xf, clock, video_duration, faults, mrg>>

\* The background task runs up to its call of the generator.
TaskBegins ==
    \E j \in JobIds :
        /\ jobs[j].pc = "accepted"
        /\ LET id == jobs[j].id
               old == IF id \in DOMAIN table THEN table[id] ELSE InitialTask(route)
           IN table' = Put(table, id, StartedRecord(route, old))
        /\ jobs' = [jobs EXCEPT ![j].pc = IF route = "api" /\ LoadConfigRaises
                                          THEN "finished" ELSE "running"]
        /\ UNCHANGED <<inputs, run, xf, clock, video_duration, faults, mrg>>

\* The generator reports progress to the task's callback (youtube only).
Callback ==
    \E j \in JobIds, tenths \in {1, 4} :
        /\ jobs[j].pc = "running"
        /\ route = "youtube"
        /\ table[jobs[j].id].progress < tenths * 10
        /\ table' = Put(table, jobs[j].id, ProgressCallback(table[jobs[j].id], tenths))
        /\ UNCHANGED <<inputs, run, xf, clock, jobs, video_duration, faults, mrg>>

\* The generator returns and the task writes its terminal record.
TaskEnds ==
    \E j \in JobIds, res \in {"success", "failure"} :
        /\ jobs[j].pc = "running"
        /\ table' = Put(table, jobs[j].id, TerminalRecord(route, table[jobs[j].id], res))
        /\ jobs' = [jobs EXCEPT ![j].pc = "finished"]
        /\ UNCHANGED <<inputs, run, xf, clock, video_duration, faults, mrg>>

NextJobs ==
    \/ Tick
    \/ Request
    \/ TaskBegins
    \/ Callback
    \/ TaskEnds

SpecJobs == InitJobs /\ [][NextJobs]_vars

\* ------------------------------------------------------------- runs with any mode value
\* config["subtitle_mode"] may hold any string; "karaoke" stands for a value
\* outside the four known modes.
AnyModes == PipelineModes \cup {"karaoke"}

InitMode ==
    /\ variant \in {"core", "modules"}
    /\ route = "direct"
    /\ focusCfg = NoFocusList
    /\ repeat_count \in 1..MaxRepeat
    /\ userModes \in SeqsUpTo(AnyModes, MaxModes)
    /\ ttsCfg = "off"
    /\ inputExists = TRUE
    /\ subtitleExists = TRUE
    /\ subs \in CueLists
    /\ RunInit
    /\ xfCues = <<>>
    /\ xfMode = "no_subtitle"
    /\ xfLookup = <<>>
    /\ xfOut = <<>>
    /\ xfSubs = <<>>
    /\ xfPass = 0
    /\ xfSpoken = <<>>
    /\ ExtIdle

NextMode ==
    \/ Start
    \/ Plan
    \/ CreateSegment
    \/ SegmentReturn
    \/ Focus
    \/ Concat
    \/ Cleanup

SpecMode == InitMode /\ [][NextMode]_vars

\* ------------------------------------------------------------- cue transformer
\* Texts are sequences of characters.
NL == "\n"

Whitespace == {" ", NL}

\* str.strip(): leading and trailing whitespace removed.
RECURSIVE LStrip(_)
LStrip(t) == IF t # <<>> /\ Head(t) \in Whitespace THEN LStrip(Tail(t)) ELSE t

RECURSIVE RStrip(_)
RStrip(t) ==
    IF t # <<>> /\ t[Len(t)] \in Whitespace THEN RStrip(SubSeq(t, 1, Len(t) - 1)) ELSE t

Strip(t) == RStrip(LStrip(t))

\* korean_translation and english_text in korean_translation
HasTranslation(kt, english_text) == english_text \in DOMAIN kt

\* Mutant: en_ko without a translation repeats the source on the second line.
NewSubTextTwoLines(text, mode, kt) ==
    LET english_text == Strip(text)
    IN CASE mode = "en" -> english_text
         [] mode = "ko" ->
                IF HasTranslation(kt, english_text) THEN kt[english_text]
                ELSE english_text
         [] mode = "en_ko" ->
                IF HasTranslation(kt, english_text)
                THEN english_text \o <<NL>> \o kt[english_text]
                ELSE english_text \o <<NL>> \o english_text
         [] OTHER -> text

\* Mutant: ko without a translation leaves the line empty.
NewSubTextKoEmpty(text, mode, kt) ==
    LET english_text == Strip(text)
    IN CASE mode = "en" -> english_text
         [] mode = "ko" ->
                IF HasTranslation(kt, english_text) THEN kt[english_text]
                ELSE <<>>
         [] mode = "en_ko" ->
                IF HasTranslation(kt, english_text)
                THEN english_text \o <<NL>> \o kt[english_text]
                ELSE english_text
         [] OTHER -> text

\* Mutant: en_ko puts the translation on the first line.
NewSubTextTranslationFirst(text, mode, kt) ==
    LET english_text == Strip(text)
    IN CASE mode = "en" -> english_text
         [] mode = "ko" ->
                IF HasTranslation(kt, english_text) THEN kt[english_text]
                ELSE english_text
         [] mode = "en_ko" ->
                IF HasTranslation(kt, english_text)
                THEN kt[english_text] \o <<NL>> \o english_text
                ELSE english_text
         [] OTHER -> text

\* Mutant: en keeps the cue text as parsed.
NewSubTextRaw(text, mode, kt) ==
    LET english_text == Strip(text)
    IN CASE mode = "en" -> text
         [] mode = "ko" ->
                IF HasTranslation(kt, english_text) THEN kt[english_text]
                ELSE english_text
         [] mode = "en_ko" ->
                IF HasTranslation(kt, english_text)
                THEN english_text \o <<NL>> \o kt[english_text]
                ELSE english_text
         [] OTHER -> text

\* The text given to new_sub for one cue (the if/elif chain on mode); a mode
\* that matches no branch leaves the text copied from the cue.
NewSubText(text, mode, kt) ==
    LET english_text == Strip(text)
    IN CASE mode = "en" -> english_text
         [] mode = "ko" ->
                IF HasTranslation(kt, english_text) THEN kt[english_text]
                ELSE english_text
         [] mode = "en_ko" ->
                IF HasTranslation(kt, english_text)
                THEN english_text \o <<NL>> \o kt[english_text]
                ELSE english_text
         [] OTHER -> text

\* _prepare_subtitles: the cue list saved to the per-pass caption file.
\* no_subtitle writes an empty file; otherwise every cue is copied with its
\* index, start and end and the rewritten text.
PrepareSubtitles(subtitles, mode, kt) ==
    IF mode = "no_subtitle" THEN <<>>
    ELSE [n \in 1..Len(subtitles) |->
             [index |-> subtitles[n].index,
              start |-> subtitles[n].start,
              end |-> subtitles[n].end,
              text |-> NewSubText(subtitles[n].text, mode, kt)]]

\* Inputs of the transformer check.
MaxXfCues == 1
MaxLookup == 2

A == <<"a">>
B == <<"b">>

\* Cue texts as the caption parser yields them.
SourceTexts == {<<>>, A, B, <<" ", "a">>, <<"a", NL, "b">>}

LookupKeys == {A, B, <<"a", NL, "b">>}

LookupValues == {A, B, <<"b", " ">>, <<>>}

AllModes == Modes \cup {"karaoke"}

XfCue(n, text) == [index |-> n, start |-> 1000 * (n - 1), end |-> 1000 * n, text |-> text]

XfCueLists ==
    {[n \in 1..Len(ts) |-> XfCue(n, ts[n])] : ts \in SeqsUpTo(SourceTexts, MaxXfCues)}

\* Every dictionary with at most MaxLookup entries.
Lookups ==
    UNION {[ks -> LookupValues] :
              ks \in {x \in SUBSET LookupKeys : Cardinality(x) <= MaxLookup}}

InitXf ==
    /\ variant = "core"
    /\ route = "direct"
    /\ focusCfg = NoFocusList
    /\ repeat_count = 0
    /\ inputExists = TRUE
    /\ userModes = <<>>
    /\ ttsCfg = "absent"
    /\ subtitleExists = TRUE
    /\ subs = <<>>
    /\ RunInit
    /\ xfCues \in XfCueLists
    /\ xfMode \in AllModes
    /\ xfLookup \in Lookups
    /\ xfOut = <<>>
    /\ xfSubs = xfCues
    /\ xfPass = 0
    /\ xfSpoken = <<>>
    /\ ExtIdle

\* One application of _prepare_subtitles: to the parsed cue list first, to
\* its own output afterwards.
Transform ==
    /\ Len(xfOut) < 2
    /\ xfOut' = Append(xfOut, PrepareSubtitles(IF xfOut = <<>> THEN xfCues ELSE Last(xfOut),
                                               xfMode, xfLookup))
    /\ UNCHANGED <<ext, inputs, run, xfCues, xfMode, xfLookup, xfSubs, xfPass, xfSpoken>>

NextXf == Transform

SpecXf == InitXf /\ [][NextXf]_vars

\* ------------------------------------------------------------- passes over one cue list
\* The caption file of each pass is prepared from the same parsed list
\* object; the overlay of pass 0 reads that object after the first pass.
MaxPasses == 2

\* Mutant: the rewritten text assigned to the cue of the parsed list.
SubsRewritten(subtitles, mode, kt) ==
    IF mode = "no_subtitle" THEN subtitles ELSE PrepareSubtitles(subtitles, mode, kt)

\* The parsed list once _prepare_subtitles has returned: every cue is copied
\* into a new SubRipItem and only the copy's text is assigned.
SubsAfterPrepare(subtitles, mode, kt) == subtitles

\* Start times, in milliseconds, for which the double-precision product
\* start_time * 1000 lies just below the whole number (1.001 * 1000 is
\* 1000.9999999999999), among the start times drawn below.
ProductFallsShort == {1001}

\* adelay = int(start_time * 1000), start_time being the float
\* hours * 3600 + minutes * 60 + seconds + milliseconds / 1000.
\* int() truncates the product.
DelayMs(start) == IF start \in ProductFallsShort THEN start - 1 ELSE start

\* What _generate_edge_tts makes of the list: one speech clip per cue, from
\* the trimmed text, placed in the mix at the delay computed from the cue's
\* start time.
OverlayCues(subtitles) ==
    [n \in 1..Len(subtitles) |->
        [text |-> Strip(subtitles[n].text), delay |-> DelayMs(subtitles[n].start)]]

InitPass ==
    /\ InitXf
    /\ xfMode = "no_subtitle"

\* _create_segment prepares the caption file of the next pass.
PreparePass ==
    /\ xfPass < MaxPasses
    /\ \E mode \in AllModes :
          /\ xfMode' = mode
          /\ xfOut' = <<PrepareSubtitles(xfSubs, mode, xfLookup)>>
          /\ xfSubs' = SubsAfterPrepare(xfSubs, mode, xfLookup)
    /\ xfPass' = xfPass + 1
    /\ UNCHANGED <<ext, inputs, run, xfCues, xfLookup, xfSpoken>>

\* The overlay of pass 0 reads the list before the next pass is prepared.
OverlayRead ==
    /\ xfPass = 1
    /\ xfSpoken = <<>>
    /\ xfSpoken' = <<OverlayCues(xfSubs)>>
    /\ UNCHANGED <<ext, inputs, run, xfCues, xfMode, xfLookup, xfOut, xfSubs, xfPass>>

NextPass == PreparePass \/ OverlayRead

SpecPass == InitPass /\ [][NextPass]_vars

\* ------------------------------------------------------------- VideoMerger
\* merge_segments of src/modules/merge_final_video.py.
MaxMergeSegments == 2

SegmentPaths == {"a.mp4", "b.mp4"}

\* Mutant: the outro written before the segments.
ConcatLinesOutroFirst(in, segs, out, d) ==
    (IF in # "" /\ in \in d THEN <<in>> ELSE <<>>)
    \o (IF out # "" /\ out \in d THEN <<out>> ELSE <<>>)
    \o segs

\* The lines written to the concat file: the intro if provided and existing,
\* every segment, the outro if provided and existing.
ConcatLines(in, segs, out, d) ==
    (IF in # "" /\ in \in d THEN <<in>> ELSE <<>>)
    \o segs
    \o (IF out # "" /\ out \in d THEN <<out>> ELSE <<>>)

\* for segment in segments: if not Path(segment).exists(): return False
AllSegmentsExist(segs, d) == \A n \in DOMAIN segs : segs[n] \in d

InitMerge ==
    /\ variant = "modules"
    /\ route = "direct"
    /\ focusCfg = NoFocusList
    /\ repeat_count = 0
    /\ inputExists = TRUE
    /\ subtitleExists = TRUE
    /\ userModes = <<>>
    /\ ttsCfg = "absent"
    /\ subs = <<>>
    /\ RunInit
    /\ xfCues = <<>>
    /\ xfMode = "no_subtitle"
    /\ xfLookup = <<>>
    /\ xfOut = <<>>
    /\ xfSubs = <<>>
    /\ xfPass = 0
    /\ xfSpoken = <<>>
    /\ clock = 0
    /\ table = <<>>
    /\ jobs = <<>>
    /\ video_duration = 0
    /\ faults = FALSE
    /\ mergeSegments \in SeqsUpTo(SegmentPaths, MaxMergeSegments)
    /\ intro \in {"", "intro.mp4"}
    /\ outro \in {"", "outro.mp4"}
    /\ mergeDisk \in SUBSET (SegmentPaths \cup {"intro.mp4", "outro.mp4"})
    /\ mergePc = "check"
    /\ concatWritten = FALSE
    /\ concat_file = <<>>
    /\ ffmpegRuns = 0
    /\ mergeResult = "none"

\* The existence check of every segment, then the output directory is
\* created; an exception there is caught by the outer handler.
MergeCheck ==
    /\ mergePc = "check"
    /\ IF ~AllSegmentsExist(mergeSegments, mergeDisk)
       THEN /\ mergeResult' = "failure"
            /\ mergePc' = "done"
       ELSE \E mkdir \in {"ok", "raise"} :
               IF mkdir = "ok"
               THEN /\ mergePc' = "concat_file"
                    /\ UNCHANGED mergeResult
               ELSE /\ mergeResult' = "failure"
                    /\ mergePc' = "done"
    /\ UNCHANGED <<inputs, run, xf, clock, table, jobs, video_duration, faults, mergeSegments,
                   intro, outro, mergeDisk, concatWritten, concat_file, ffmpegRuns>>

\* The concat file is created, registered and written.
MergeWrite ==
    /\ mergePc = "concat_file"
    /\ concatWritten' = TRUE
    /\ concat_file' = ConcatLines(intro, mergeSegments, outro, mergeDisk)
    /\ mergePc' = "ffmpeg"
    /\ UNCHANGED <<inputs, run, xf, clock, table, jobs, video_duration, faults, mergeSegments,
                   intro, outro, mergeDisk, ffmpegRuns, mergeResult>>

\* subprocess.run of the transcoder and the test of its return code.
MergeRun ==
    /\ mergePc = "ffmpeg"
    /\ ffmpegRuns' = ffmpegRuns + 1
    /\ \E out \in Outcomes :
          mergeResult' = IF out = "ok" THEN "success" ELSE "failure"
    /\ mergePc' = "done"
    /\ UNCHANGED <<inputs, run, xf, clock, table, jobs, video_duration, faults, mergeSegments,
                   intro, outro, mergeDisk, concatWritten, concat_file>>

NextMerge == MergeCheck \/ MergeWrite \/ MergeRun

SpecMerge == InitMerge /\ [][NextMerge]_vars

\* ------------------------------------------------------------- overlay plan
\* Cue lists with start times before and after the end of the pass video and
\* with empty texts, as the caption parser can yield them.
MaxOvCues == 2

\* Cue start times in milliseconds.
StartTimes == {0, 1001, 2500, 12000}

\* Probed length of the rendered pass, in seconds.
BaseDurations == {1, 10}

OvCueLists ==
    {[n \in 1..Len(cs) |->
         [index |-> n, start |-> cs[n][1], end |-> cs[n][1] + 500, text |-> cs[n][2]]] :
        cs \in SeqsUpTo(StartTimes \X {<<>>, A}, MaxOvCues)}

InitOverlay ==
    /\ variant = "core"
    /\ route = "direct"
    /\ focusCfg = NoFocusList
    /\ repeat_count = 0
    /\ inputExists = TRUE
    /\ userModes = <<>>
    /\ ttsCfg = "absent"
    /\ subtitleExists = TRUE
    /\ subs = <<>>
    /\ RunInit
    /\ xfCues \in OvCueLists
    /\ xfMode = "no_subtitle"
    /\ xfLookup = <<>>
    /\ xfOut = <<>>
    /\ xfSubs = xfCues
    /\ xfPass = 0
    /\ xfSpoken = <<>>
    /\ clock = 0
    /\ table = <<>>
    /\ jobs = <<>>
    /\ video_duration \in BaseDurations
    /\ faults = FALSE
    /\ MergeIdle

SpecOverlay == InitOverlay /\ [][NextPass]_vars

\* ------------------------------------------------------------- properties
Pipeline == variant \in {"core", "modules"}

\* The run got past the input checks of generate_repeat_video.
InputsOk == subtitleExists /\ (variant = "core" => inputExists)

Returned == pc = "done"

CallsOf(ops) == SelectSeq(calls, LAMBDA c : c.op \in ops)

RenderCalls == CallsOf({"copy", "burn"})

ConcatCalled == CallsOf({"concat"}) # <<>>

\* Passes whose render was attempted and did not succeed.
FailedPasses ==
    {c.pass : c \in {d \in Range(RenderCalls) : Path("segment_mp4", d.pass) \notin rendered}}

\* Position of a unit in the plan: pass 0, interlude 0, pass 1, ...
PlanPos(p) == IF p.kind = "segment_mp4" THEN 2 * p.idx ELSE 2 * p.idx + 1

\* C1: if the render of any pass fails, the run ends in failure: the
\* concatenator is not invoked and the run never returns success with a pass
\* missing from the output.
C1_PassFailureFailsRun ==
    (Pipeline /\ FailedPasses # {}) => (~ConcatCalled /\ result # "success")

\* C2: on every exit path, once control is back with the caller no path
\* registered in temp_files still exists (when no unlink failed).
C2_NoTempFileLeft ==
    (Returned /\ stuck = {}) => Range(temp_files) \cap disk = {}

\* C3: a failure in any audio-overlay step for the flagged pass fails the
\* whole generation: the run does not concatenate and does not return
\* success.
C3_OverlayFailureFailsRun ==
    (Pipeline /\ ttsResult = "failed") => (~ConcatCalled /\ result # "success")

\* C4: the manifest handed to the concatenation lists the rendered units in
\* the order of the plan (pass 0, interlude 0, pass 1, ...): every rendered
\* unit once, none out of order.
C4_ManifestInPlanOrder ==
    (Pipeline /\ ConcatCalled) =>
        /\ Range(manifest) = rendered
        /\ \A a, b \in DOMAIN manifest : a < b => PlanPos(manifest[a]) < PlanPos(manifest[b])

C4_Witness ==
    /\ Pipeline
    /\ ConcatCalled
    /\ manifest = <<Path("segment_mp4", 0), Path("focus", 0), Path("segment_mp4", 1),
                    Path("focus", 1), Path("segment_mp4", 2)>>

\* C5: a run that reaches concatenation with repeat_count = N has exactly
\* 2N-1 units, passes and interludes alternating, the last one a pass.
C5_UnitsAlternate ==
    (Pipeline /\ ConcatCalled) =>
        /\ Len(segments) = 2 * repeat_count - 1
        /\ \A j \in DOMAIN segments :
              segments[j] = (IF j % 2 = 1 THEN Path("segment_mp4", (j - 1) \div 2)
                             ELSE Path("focus", (j - 2) \div 2))

\* The mode the planner is to use for pass idx, from the supplied sequence.
ExpectedMode(supplied, idx) ==
    IF idx < Len(supplied) THEN supplied[idx + 1] ELSE supplied[Len(supplied)]

\* C6: for repeat_count >= 1 and a non-empty mode sequence the passes
\* attempted are passes 0, 1, ... in order, pass i with the i-th supplied mode
\* or, beyond the supplied sequence, the last supplied mode; when the loop has
\* ended exactly repeat_count passes were attempted.
C6_PlannerModes ==
    (Pipeline /\ repeat_count >= 1 /\ userModes # <<>>) =>
        /\ Len(RenderCalls) <= repeat_count
        /\ \A j \in DOMAIN RenderCalls :
              /\ RenderCalls[j].pass = j - 1
              /\ RenderCalls[j].mode = ExpectedMode(userModes, j - 1)
        /\ (InputsOk /\ pc \in {"concat", "cleanup", "done"})
              => Len(RenderCalls) = repeat_count

C6_Witness ==
    /\ Pipeline
    /\ Returned
    /\ repeat_count = 3
    /\ userModes = <<"no_subtitle", "en_ko">>
    /\ Len(RenderCalls) = 3
    /\ RenderCalls[3].mode = "en_ko"

\* C7: with an empty mode sequence and repeat_count >= 1 the planner pads
\* with en_ko and the run renders repeat_count passes.
C7_EmptyModesPadded ==
    (Pipeline /\ InputsOk /\ repeat_count >= 1 /\ userModes = <<>>
        /\ pc \in {"concat", "cleanup", "done"}) =>
        /\ Len(RenderCalls) = repeat_count
        /\ \A j \in DOMAIN RenderCalls : RenderCalls[j].mode = "en_ko"

\* C8: a run with repeat_count < 1 fails without any render, interlude,
\* synthesis or concatenation call, and no other input is rejected by the
\* planner (with repeat_count >= 1 the first pass is attempted).
C8_OnlyRepeatCountRejected ==
    /\ repeat_count < 1 => (calls = <<>> /\ (Returned => result = "failure"))
    /\ (Pipeline /\ InputsOk /\ repeat_count >= 1 /\ pc \in {"concat", "cleanup", "done"})
          => RenderCalls # <<>>

OverlayOps == {"tts", "probe", "silent", "synth", "mix", "mux"}

\* C9 as stated: synthesis is triggered for at most one pass, pass 0,
\* whatever its mode, and only if the caller configured TTS: a run whose
\* caller configured none makes no probe or synthesis call.
C9_OnlyWhenCallerConfiguredTts ==
    /\ Len(CallsOf({"tts"})) <= 1
    /\ \A c \in Range(CallsOf(OverlayOps)) : c.pass = 0
    /\ ttsCfg \in {"absent", "off"} => CallsOf(OverlayOps) = <<>>

\* C9 amended: synthesis is triggered for at most one pass, pass 0, whatever
\* its mode, and exactly when the merged configuration names a provider and
\* the render of pass 0 succeeded.
C9_OnlyWhenMergedProvider ==
    Pipeline =>
        /\ Len(CallsOf({"tts"})) <= 1
        /\ \A c \in Range(CallsOf(OverlayOps)) : c.pass = 0 /\ Provider # ""
        /\ (Provider # "" /\ Path("segment_mp4", 0) \in rendered /\ pc # "tts")
              => Len(CallsOf({"tts"})) = 1

C9_Witness ==
    /\ variant = "core"
    /\ ttsCfg = "absent"
    /\ repeat_count >= 2
    /\ Returned
    /\ CallsOf({"tts"}) = <<Call("tts", 0, "no_subtitle", 0)>>
    /\ CallsOf({"synth"}) # <<>>

\* ------------------------------------------------------------- transformer properties
TwiceApplied == Len(xfOut) = 2

\* Each text of the first application is unchanged by trimming and is no
\* key of the lookup.
OutputIsFixed ==
    \A n \in DOMAIN xfOut[1] :
        LET t == xfOut[1][n].text
        IN Strip(t) = t /\ ~HasTranslation(xfLookup, t)

\* C10 as stated: for every cue list, mode and lookup, applying the
\* transformer twice gives the same cue list as applying it once.
C10_Idempotent == TwiceApplied => xfOut[2] = xfOut[1]

\* C10 amended: applying the transformer twice gives the same cue list as
\* applying it once in no_subtitle and en mode, and in ko and en_ko mode
\* whenever each text of the first application is unchanged by trimming and
\* is no key of the lookup.
C10_IdempotentOnFixedTexts ==
    (TwiceApplied /\ xfMode \in Modes /\ (xfMode \in {"ko", "en_ko"} => OutputIsFixed))
        => xfOut[2] = xfOut[1]

C10_Witness ==
    /\ TwiceApplied
    /\ xfMode = "en_ko"
    /\ xfCues # <<>>
    /\ HasTranslation(xfLookup, Strip(xfCues[1].text))
    /\ xfOut[1][1].text # xfCues[1].text
    /\ OutputIsFixed
    /\ xfOut[2] = xfOut[1]

\* The transformer has been applied to the parsed cue list.
Applied == Len(xfOut) >= 1

\* The trimmed text of parsed cue n, the key used for the lookup.
EnglishText(n) == Strip(xfCues[n].text)

\* C11 as stated: in ko mode each output text is the lookup value of the
\* trimmed source text when there is such an entry and the source text
\* otherwise, and a cue with non-empty source text never gets an empty text.
C11_TargetTextNeverEmpty ==
    (Applied /\ xfMode = "ko") =>
        /\ Len(xfOut[1]) = Len(xfCues)
        /\ \A n \in DOMAIN xfCues :
              /\ xfOut[1][n].text =
                     (IF HasTranslation(xfLookup, EnglishText(n))
                      THEN xfLookup[EnglishText(n)] ELSE xfCues[n].text)
              /\ xfCues[n].text # <<>> => xfOut[1][n].text # <<>>

\* C11 amended: in ko mode each output text is the lookup value of the
\* trimmed source text when there is such an entry and the trimmed source
\* text otherwise; it is non-empty whenever the trimmed source text is
\* non-empty and the entry used, if any, has a non-empty value.
C11_TargetTextFromLookup ==
    (Applied /\ xfMode = "ko") =>
        /\ Len(xfOut[1]) = Len(xfCues)
        /\ \A n \in DOMAIN xfCues :
              /\ xfOut[1][n].text =
                     (IF HasTranslation(xfLookup, EnglishText(n))
                      THEN xfLookup[EnglishText(n)] ELSE EnglishText(n))
              /\ (/\ EnglishText(n) # <<>>
                  /\ HasTranslation(xfLookup, EnglishText(n))
                         => xfLookup[EnglishText(n)] # <<>>)
                     => xfOut[1][n].text # <<>>

C11_Witness ==
    /\ Applied
    /\ xfMode = "ko"
    /\ xfCues # <<>>
    /\ xfCues[1].text = <<" ", "a">>
    /\ HasTranslation(xfLookup, A)
    /\ xfLookup[A] = B
    /\ xfOut[1][1].text = B

C13_NoneEmptySourceUnchanged ==
    Applied =>
        /\ xfMode = "no_subtitle" => xfOut[1] = <<>>
        /\ xfMode = "en" =>
              /\ Len(xfOut[1]) = Len(xfCues)
              /\ \A n \in DOMAIN xfCues : xfOut[1][n].text = xfCues[n].text

\* C13 amended: no_subtitle mode yields the empty cue list for every input
\* and lookup, and in en mode every output cue carries the source text with
\* its leading and trailing whitespace removed.
C13_NoneEmptySourceTrimmed ==
    Applied =>
        /\ xfMode = "no_subtitle" => xfOut[1] = <<>>
        /\ xfMode = "en" =>
              /\ Len(xfOut[1]) = Len(xfCues)
              /\ \A n \in DOMAIN xfCues : xfOut[1][n].text = EnglishText(n)

C13_Witness ==
    /\ Applied
    /\ xfMode = "en"
    /\ xfCues # <<>>
    /\ xfCues[1].text = <<" ", "a">>
    /\ DOMAIN xfLookup # {}
    /\ xfOut[1][1].text = A

UnknownModePlanned ==
    \E idx \in 0..(repeat_count - 1) :
        idx < Len(userModes) /\ userModes[idx + 1] \notin Modes

\* C15: a mode value outside the four known modes is rejected: the run fails
\* and no pass is rendered with that mode.
C15_UnknownModeRejected ==
    /\ \A c \in Range(RenderCalls) : c.mode \in Modes
    /\ (UnknownModePlanned /\ Returned) => result = "failure"

\* Stage of an external call: rendering of passes and interludes, audio
\* synthesis, concatenation.
StageOf(c) ==
    CASE c.op \in {"copy", "burn", "focus"} -> 1
      [] c.op \in OverlayOps -> 2
      [] OTHER -> 3

\* C16 as stated: the stages of a run are entered in the order planning,
\* rendering of all passes and interludes, audio synthesis, concatenation,
\* and no call of an earlier stage is made after a call of a later stage.
C16_StagesInOrder ==
    Pipeline =>
        /\ calls # <<>> => pc \notin {"start", "plan"}
        /\ \A a, b \in DOMAIN calls : a < b => StageOf(calls[a]) <= StageOf(calls[b])

\* Position of an external call in the run: per pass its render, then its
\* overlay steps, then its interlude; the concatenation after all passes.
CallRank(c) ==
    CASE c.op \in {"copy", "burn"} -> 3 * c.pass
      [] c.op \in OverlayOps -> 3 * c.pass + 1
      [] c.op = "focus" -> 3 * c.pass + 2
      [] OTHER -> 3 * repeat_count

\* C16 amended: planning comes first; then for each pass in turn its render,
\* for pass 0 the audio overlay steps right after its render and before its
\* interlude and every later pass, then its interlude; the concatenation
\* starts only after every pass has been attempted and no render, interlude
\* or overlay step runs after it.
C16_OverlayInsideFirstPass ==
    Pipeline =>
        /\ calls # <<>> => pc \notin {"start", "plan"}
        /\ \A a \in 1..(Len(calls) - 1) :
              \/ CallRank(calls[a]) < CallRank(calls[a + 1])
              \/ /\ CallRank(calls[a]) = CallRank(calls[a + 1])
                 /\ calls[a].op \in OverlayOps
                 /\ calls[a + 1].op \in OverlayOps
        /\ \A a \in DOMAIN calls : calls[a].op \in OverlayOps => calls[a].pass = 0
        /\ \A a \in DOMAIN calls :
              calls[a].op = "concat" =>
                  \A p \in 0..(repeat_count - 1) :
                      \E b \in 1..(a - 1) :
                          calls[b].op \in {"copy", "burn"} /\ calls[b].pass = p

C16_Witness ==
    /\ Pipeline
    /\ Returned
    /\ ConcatCalled
    /\ repeat_count = 2
    /\ \E a, b, c \in DOMAIN calls :
          /\ a < b /\ b < c
          /\ calls[a].op = "mux"
          /\ calls[b].op = "focus"
          /\ calls[c].op \in {"copy", "burn"}

\* C17: when the source clip does not exist the run ends in failure, never
\* in success, afterwards no registered temporary path exists, and no run is
\* reported successful with an output made of interlude clips alone.
C17_MissingClipFails ==
    (~inputExists /\ Returned) =>
        /\ result = "failure"
        /\ stuck = {} => Range(temp_files) \cap disk = {}
        /\ \A j \in DOMAIN manifest : manifest[j].kind # "focus"

\* C19: every temporary file created by a render, interlude, audio-overlay
\* or concatenation step is appended to temp_files when its path is made,
\* before the external call that writes it: no temporary path exists on disk
\* that is not registered.
C19_TempFilesRegistered == disk \subseteq Range(temp_files)

\* The background task wrote its terminal record.
Reported == pc = "reported"

\* C18: when the concatenation call returns non-zero the run ends in failure,
\* the task-status record has no result field and its error message contains
\* the stderr text of the concatenation.
C18_ConcatStderrInRecord ==
    (Pipeline /\ route # "direct" /\ stderr # "" /\ Reported) =>
        /\ result = "failure"
        /\ task.state \in {"FAILURE", "error"}
        /\ task.result = "absent"
        /\ task.error = stderr

\* C20: the progress percentage recorded for a run never decreases, from the
\* initial record through every callback to the terminal record.
C20_ProgressNeverDecreases == [][task.progress <= task'.progress]_vars

\* C21: any two requests are given distinct task ids, so that each status
\* record is written by one run only.
C21_DistinctTaskIds ==
    \A a, b \in DOMAIN jobs :
        (a # b /\ jobs[a].pc # "new" /\ jobs[b].pc # "new") => jobs[a].id # jobs[b].id

\* C27: once the request handler has returned a task id, polling that id
\* finds a record: there is no window in which the id is not in the table.
C27_PollFindsRecord ==
    \A j \in DOMAIN jobs : jobs[j].pc # "new" => jobs[j].id \in DOMAIN table

\* Position of a record's state in the lifecycle.
StateRank(st) ==
    CASE st \in {"absent", "PENDING"} -> 0
      [] st \in {"PROGRESS", "processing"} -> 1
      [] OTHER -> 2

\* C28: the state of a record only moves forward PENDING, PROGRESS, then
\* SUCCESS or FAILURE; a record that is SUCCESS or FAILURE keeps its state,
\* result and error; a SUCCESS record has progress 100 and a result, a
\* FAILURE record has an error and no result.
C28_RecordLifecycle ==
    [][\A id \in DOMAIN table :
          /\ StateRank(table[id].state) <= StateRank(table'[id].state)
          /\ table[id].state \in {"SUCCESS", "FAILURE"} =>
                 /\ table'[id].state = table[id].state
                 /\ table'[id].result = table[id].result
                 /\ table'[id].error = table[id].error
          /\ table'[id].state = "SUCCESS" =>
                 (table'[id].progress = 100 /\ table'[id].result = "set")
          /\ table'[id].state = "FAILURE" =>
                 (table'[id].error \notin {"absent", "none"} /\ table'[id].result # "set")]_vars

\* The overlay plan has been built.
Planned == xfSpoken # <<>>

\* C22: the delay of every cue's clip in the overlay plan is the cue's start
\* time in whole milliseconds, whatever the clips of earlier cues are.
C22_DelayIsStartMs ==
    Planned =>
        /\ Len(xfSpoken[1]) = Len(xfCues)
        /\ \A n \in DOMAIN xfCues : xfSpoken[1][n].delay = xfCues[n].start

\* C23: every entry of the overlay plan has a delay between 0 and the probed
\* duration of the pass video in milliseconds.
C23_DelayWithinBase ==
    Planned =>
        \A n \in DOMAIN xfSpoken[1] :
            /\ 0 <= xfSpoken[1][n].delay
            /\ xfSpoken[1][n].delay <= video_duration * 1000

\* C24: the overlay plan has as many clips as there are cues with non-empty
\* text: no clip is synthesized or mixed for a cue whose text is empty.
C24_ClipsForSpokenCues ==
    Planned =>
        /\ Len(xfSpoken[1]) = Cardinality({n \in DOMAIN xfCues : Strip(xfCues[n].text) # <<>>})
        /\ \A n \in DOMAIN xfSpoken[1] : xfSpoken[1][n].text # <<>>

\* The run is over and control is back with the caller.
RunOver == pc = "done"

\* C25: when a pass render, interlude render, silent-track generation, audio
\* mix or concatenation returned zero but left its output file missing or
\* zero bytes long, the run ends in failure.
C25_HollowOutputFailsRun ==
    (RunOver /\ hollow # {}) => result = "failure"

\* C26: the interlude after pass i shows the message at position
\* i mod messageCount of the configured list; when no list is configured the
\* messages alternate between the two default messages, the first for even
\* i and the second for odd i.
C26_InterludeMessage ==
    \A n \in DOMAIN shown :
        IF focusCfg.configured
        THEN focusCfg.messages # <<>> =>
                 shown[n] = focusCfg.messages[((n - 1) % Len(focusCfg.messages)) + 1]
        ELSE shown[n] = Alternate(n - 1)

\* The states a record is left in for good.
TerminalStates == {"SUCCESS", "FAILURE", "success", "error"}

C30_MergeValidatesFirst ==
    /\ ~AllSegmentsExist(mergeSegments, mergeDisk) =>
           /\ ~concatWritten
           /\ ffmpegRuns = 0
           /\ mergePc = "done" => mergeResult = "failure"
    /\ ffmpegRuns > 0 => concatWritten
    /\ concatWritten =>
           concat_file =
               (IF intro # "" /\ intro \in mergeDisk THEN <<intro>> ELSE <<>>)
               \o mergeSegments
               \o (IF outro # "" /\ outro \in mergeDisk THEN <<outro>> ELSE <<>>)

\* A merge of two segments between an intro and an outro that succeeded.
C30_Witness ==
    /\ mergePc = "done"
    /\ mergeResult = "success"
    /\ Len(mergeSegments) = MaxMergeSegments
    /\ mergeSegments[1] # mergeSegments[2]
    /\ Len(concat_file) = Len(mergeSegments) + 2

====
